---- MODULE Spec2Model ----
(***************************************************************************)
(* Model of go-jenkins-trigger: one invocation of the command triggers a   *)
(* Jenkins job (main.go: main, triggerBuild, buildJob) and, when --wait is *)
(* set, polls the build through retry.Do (avast/retry-go v3.0.0) with      *)
(* pollBuildResult as the retried function.                                *)
(*                                                                         *)
(* Strings that the code takes apart (folder entries, key=value entries)   *)
(* are sequences of one-character strings.  Durations are in abstract      *)
(* units.  The repository holds two copies of the command: main.go and an  *)
(* older copy (unnamed/part_001) without folders and without               *)
(* retry.DelayType(retry.FixedDelay); variable program says which one runs.*)
(***************************************************************************)
EXTENDS Integers, Sequences, FiniteSets, TLC

\* ---------------------------------------------------------------- bounds
MaxAttemptsBound == 3
MaxPollTime == 2
MaxBuildNumber == 2
MaxJitter == 1

\* ------------------------------------------------------- string helpers
\* index of the first occurrence of ch in s, 0 when there is none
RECURSIVE IndexFrom(_, _, _)
IndexFrom(s, ch, i) ==
  IF i > Len(s) THEN 0
  ELSE IF s[i] = ch THEN i
  ELSE IndexFrom(s, ch, i + 1)

Index(s, ch) == IndexFrom(s, ch, 1)

\* strings.Split(s, sep) for a one-character separator: never empty,
\* Split("", sep) = [""]
RECURSIVE Split(_, _)
Split(s, sep) ==
  LET i == Index(s, sep) IN
  IF i = 0 THEN <<s>>
  ELSE <<SubSeq(s, 1, i - 1)>> \o Split(SubSeq(s, i + 1, Len(s)), sep)

\* the white space strings.TrimSpace removes, as far as the inputs have it
WhiteSpace == { " ", "\t" }

RECURSIVE TrimLeft(_)
TrimLeft(s) ==
  IF Len(s) > 0 /\ s[1] \in WhiteSpace THEN TrimLeft(Tail(s)) ELSE s

RECURSIVE TrimRight(_)
TrimRight(s) ==
  IF Len(s) > 0 /\ s[Len(s)] \in WhiteSpace
  THEN TrimRight(SubSeq(s, 1, Len(s) - 1))
  ELSE s

\* strings.TrimSpace
TrimSpace(s) == TrimRight(TrimLeft(s))

\* strings.Join(elems, sep), sep a string
RECURSIVE Join(_, _)
Join(elems, sep) ==
  IF Len(elems) = 0 THEN <<>>
  ELSE IF Len(elems) = 1 THEN elems[1]
  ELSE elems[1] \o sep \o Join(Tail(elems), sep)

JobSep == <<"/", "j", "o", "b", "/">>

\* ------------------------------------------------------------- inputs
JobNames == { <<"x">>, <<"d", "e", "p", "l", "o", "y">> }

FolderInputs ==
  { <<>>,
    << <<" ">>, <<"/">> >>,
    << <<"f", "o", "o", "/", "b", "a", "r">>, <<" ", "b", "a", "z", " ">> >> }

TeamSub == << <<"t", "e", "a", "m", "/", "s", "u", "b">> >>

JsonEmpty == ""
JsonObject == "{\"env\":\"prod\"}"
JsonMalformed == "{\"env\":"
JsonNull == "null"
JsonEmptyObject == "{}"
JsonTwoKeys == "{\"env\":\"prod\",\"a\":\"b\"}"
JsonNumberValue == "{\"env\":1}"
JsonArray == "[\"env\"]"
JsonInputs == { JsonEmpty, JsonObject, JsonMalformed, JsonNull }

SliceInputs == { <<>>, << <<"e", "n", "v", "=", "q", "a">> >> }

\* the pairs of --params and --params-json a whole run is followed for
ParamInputs ==
  { [slice |-> <<>>, json |-> JsonEmpty],
    [slice |-> << <<"e", "n", "v", "=", "q", "a">> >>, json |-> JsonObject],
    [slice |-> <<>>, json |-> JsonMalformed],
    [slice |-> <<>>, json |-> JsonNull],
    [slice |-> << <<"e", "n", "v", "=", "q", "a">> >>, json |-> JsonNull] }

Programs == { "main.go", "part_001" }

BuildNumbers == 1..MaxBuildNumber

\* ------------------------------------------------- params.init helpers
EmptyMap == [k \in {} |-> <<>>]

MapPutIfAbsent(m, k, v) ==
  [x \in (DOMAIN m) \cup {k} |-> IF x \in DOMAIN m THEN m[x] ELSE v]

\* m[k] = v on a map held as a function
MapPut(m, k, v) == [x \in (DOMAIN m) \cup {k} |-> IF x = k THEN v ELSE m[x]]

\* json.Unmarshal([]byte(p.json), &params) on the documents above: an
\* object of strings fills the map; the literal null is accepted and sets
\* the map to nil; a syntax error, a non-string value or an array is an error
Unmarshal(doc) ==
  LET env == MapPut(EmptyMap, <<"e", "n", "v">>, <<"p", "r", "o", "d">>) IN
  CASE doc = JsonObject -> [ok |-> TRUE, map |-> env, isNil |-> FALSE]
    [] doc = JsonTwoKeys -> [ok |-> TRUE, map |-> MapPut(env, <<"a">>, <<"b">>), isNil |-> FALSE]
    [] doc = JsonEmptyObject -> [ok |-> TRUE, map |-> EmptyMap, isNil |-> FALSE]
    [] doc = JsonNull -> [ok |-> TRUE, map |-> EmptyMap, isNil |-> TRUE]
    [] OTHER -> [ok |-> FALSE, map |-> EmptyMap, isNil |-> FALSE]

\* the loop over p.slice: split on every "=", key = split[0],
\* value = the rest joined with "=" again
RECURSIVE ApplySlice(_, _)
ApplySlice(m, slice) ==
  IF Len(slice) = 0 THEN m
  ELSE LET split == Split(slice[1], "=") IN
       ApplySlice(MapPut(m, split[1], Join(Tail(split), <<"=">>)), Tail(slice))

\* (p *params) init(); an assignment into the nil map left by a null
\* document panics
ParamsInit(p) ==
  IF p.json # "" /\ ~Unmarshal(p.json).ok
  THEN [ok |-> FALSE, map |-> EmptyMap, panic |-> FALSE]
  ELSE IF p.json # "" /\ Unmarshal(p.json).isNil /\ Len(p.slice) > 0
  THEN [ok |-> FALSE, map |-> EmptyMap, panic |-> TRUE]
  ELSE [ok |-> TRUE,
        map |-> ApplySlice(IF p.json # "" THEN Unmarshal(p.json).map ELSE EmptyMap,
                           p.slice),
        panic |-> FALSE]

\* ---------------------------------------------------- buildJob helpers
RECURSIVE KeepPartsUntrimmed(_)
KeepPartsUntrimmed(parts) ==
  IF Len(parts) = 0 THEN <<>>
  ELSE (IF parts[1] # <<>> THEN <<parts[1]>> ELSE <<>>) \o KeepPartsUntrimmed(Tail(parts))

\* the trimmed non-empty pieces of one folder entry, in order
RECURSIVE KeepParts(_)
KeepParts(parts) ==
  IF Len(parts) = 0 THEN <<>>
  ELSE LET trimmed == TrimSpace(parts[1]) IN
       (IF trimmed # <<>> THEN <<trimmed>> ELSE <<>>) \o KeepParts(Tail(parts))

\* the slice f that buildJob accumulates over job.Folders
RECURSIVE FlattenFolders(_)
FlattenFolders(fs) ==
  IF Len(fs) = 0 THEN <<>>
  ELSE KeepParts(Split(fs[1], "/")) \o FlattenFolders(Tail(fs))

\* Base of the gojenkins.Job built for a job inside folders
NestedBase(f, name) == <<"/", "j", "o", "b", "/">> \o Join(Append(f, name), JobSep)

\* ------------------------------------------------------------- errors
NoBuild == 0

NilErr == [type |-> "nil", jobName |-> <<>>, buildNumber |-> NoBuild, unrecoverable |-> FALSE]

ResolutionErrFatal ==
  [type |-> "resolution", jobName |-> <<>>, buildNumber |-> NoBuild, unrecoverable |-> TRUE]

\* the error of jenkins.GetBuildFromQueueID
ResolutionErr ==
  [type |-> "resolution", jobName |-> <<>>, buildNumber |-> NoBuild, unrecoverable |-> FALSE]

\* &IsStillRunning{time.Now(), c.Job.Name, build.GetBuildNumber()}
IsStillRunning(name, number) ==
  [type |-> "IsStillRunning", jobName |-> name, buildNumber |-> number, unrecoverable |-> FALSE]

NotSuccessfulErrAsRunning(name, number) == IsStillRunning(name, number)

\* fmt.Errorf("Job %s Build number %d did not complete successfully\n", ...)
NotSuccessfulErr(name, number) ==
  [type |-> "did not complete successfully", jobName |-> name, buildNumber |-> number,
   unrecoverable |-> FALSE]

\* retry.Unrecoverable, retry.IsRecoverable and the unpacking done by retry.Do
Unrecoverable(e) == [e EXCEPT !.unrecoverable = TRUE]
IsRecoverable(e) == ~e.unrecoverable
UnpackUnrecoverable(e) == [e EXCEPT !.unrecoverable = FALSE]

\* --------------------------------------------------------------- state
VARIABLES
  program,    \* which copy of the command runs
  c,          \* config: Job (Name, Folders, Params) and Wait (Enabled, PollTime, MaxAttempts)
  p,          \* params: slice and json, as given on the command line
  pc,         \* position of the single thread of control
  submitted,  \* the build submissions sent to Jenkins, in order
  queueId,    \* queue id returned by the submission, 0 before
  remote,     \* state of the build on the Jenkins server
  n,          \* retry.Do: index of the current attempt, from 0
  build,      \* pollBuildResult: number of the build resolved in this attempt
  errorLog,   \* retry.Do: one slot per attempt
  delayTime,  \* retry.Do: the delay about to be slept
  err,        \* the error cmd.Execute returns to main
  exitCode,   \* process exit status, -1 while running
  trace       \* remote calls, classifications and sleeps so far, in order

vars == <<program, c, p, pc, submitted, queueId, remote, n, build, errorLog,
          delayTime, err, exitCode, trace>>

NoQueue == 0
Running == -1

Remotes == { "none", "running", "SUCCESS", "FAILURE", "ABORTED" }

Event(op, i, v) == [op |-> op, n |-> i, v |-> v]

\* the values main can see as the result of cmd.Execute
Pending == [kind |-> "pending", log |-> <<>>]
Nil == [kind |-> "nil", log |-> <<>>]
MalformedParameters == [kind |-> "json", log |-> <<>>]
Panic == [kind |-> "panic", log |-> <<>>]
ClientFailed == [kind |-> "createClient", log |-> <<>>]
TriggerFailed == [kind |-> "trigger", log |-> <<>>]
RetryError(log) == [kind |-> "retry.Error", log |-> log]

Init ==
  /\ program \in Programs
  /\ c \in [Job : [Name : JobNames,
                   Folders : IF program = "main.go" THEN FolderInputs ELSE { <<>> },
                   Params : { EmptyMap }],
            Wait : [Enabled : BOOLEAN,
                    PollTime : 1..MaxPollTime,
                    MaxAttempts : 0..MaxAttemptsBound]]
  /\ p \in ParamInputs
  /\ pc = "RunE"
  /\ submitted = <<>>
  /\ queueId = NoQueue
  /\ remote = "none"
  /\ n = 0
  /\ build = NoBuild
  /\ errorLog = <<>>
  /\ delayTime = 0
  /\ err = Pending
  /\ exitCode = Running
  /\ trace = <<>>

FinishIgnoringErr(e) ==
  /\ err' = e
  /\ exitCode' = 0
  /\ pc' = "done"

\* main: cmd.Execute returns e; a non-nil error is printed and exits 1; a
\* panic never returns to main and the Go runtime exits 2
Finish(e) ==
  /\ err' = e
  /\ exitCode' = IF e.kind = "nil" THEN 0 ELSE IF e.kind = "panic" THEN 2 ELSE 1
  /\ pc' = "done"

\* RunE, up to the call of triggerBuild
RunE ==
  /\ pc = "RunE"
  /\ LET r == ParamsInit(p) IN
     IF ~r.ok
     THEN /\ Finish(IF r.panic THEN Panic ELSE MalformedParameters)
          /\ UNCHANGED c
     ELSE /\ c' = [c EXCEPT !.Job.Params = r.map]
          /\ pc' = "createClient"
          /\ UNCHANGED <<err, exitCode>>
  /\ UNCHANGED <<program, p, submitted, queueId, remote, n, build, errorLog,
                 delayTime, trace>>

\* triggerBuild: c.Jenkins.createClient(), which may fail
CreateClient ==
  /\ pc = "createClient"
  /\ \E ok \in BOOLEAN :
       IF ok
       THEN pc' = "buildJob" /\ UNCHANGED <<err, exitCode>>
       ELSE Finish(ClientFailed)
  /\ UNCHANGED <<program, c, p, submitted, queueId, remote, n, build, errorLog,
                 delayTime, trace>>

\* retry.Attempts(c.Wait.MaxAttempts)
Attempts == c.Wait.MaxAttempts

SubmissionByRawFolders(job) ==
  LET f == FlattenFolders(job.Folders) IN
  IF Len(job.Folders) = 0
  THEN [shape |-> "BuildJob", path |-> job.Name, params |-> job.Params]
  ELSE [shape |-> "InvokeSimple", path |-> NestedBase(f, job.Name), params |-> job.Params]

\* the call buildJob makes: by name for a top-level job, by path otherwise
Submission(job) ==
  LET f == FlattenFolders(job.Folders) IN
  IF Len(f) = 0
  THEN [shape |-> "BuildJob", path |-> job.Name, params |-> job.Params]
  ELSE [shape |-> "InvokeSimple", path |-> NestedBase(f, job.Name), params |-> job.Params]

EnabledAlways == TRUE

\* if !c.Wait.Enabled { return nil }
Enabled == c.Wait.Enabled

BuildJobRetried ==
  /\ pc = "buildJob"
  /\ submitted' = Append(submitted, Submission(c.Job))
  /\ trace' = Append(trace, Event(Submission(c.Job).shape, 0, 0))
  /\ \E ok \in BOOLEAN :
       IF ~ok
       THEN /\ IF Len(submitted) = 0
               THEN pc' = "buildJob" /\ UNCHANGED <<err, exitCode>>
               ELSE Finish(TriggerFailed)
            /\ UNCHANGED <<queueId, remote, errorLog>>
       ELSE /\ queueId' = 1
            /\ remote' = "running"
            /\ IF ~Enabled
               THEN Finish(Nil) /\ UNCHANGED errorLog
               ELSE /\ pc' = "retry"
                    /\ errorLog' = [i \in 1..Attempts |-> NilErr]
                    /\ UNCHANGED <<err, exitCode>>
  /\ UNCHANGED <<program, c, p, n, build, delayTime>>

BuildJobIgnoringError ==
  /\ pc = "buildJob"
  /\ submitted' = Append(submitted, Submission(c.Job))
  /\ trace' = Append(trace, Event(Submission(c.Job).shape, 0, 0))
  /\ \E ok \in BOOLEAN :
       /\ queueId' = IF ok THEN 1 ELSE NoQueue
       /\ remote' = IF ok THEN "running" ELSE remote
       /\ IF ~Enabled
          THEN Finish(Nil) /\ UNCHANGED errorLog
          ELSE /\ pc' = "retry"
               /\ errorLog' = [i \in 1..Attempts |-> NilErr]
               /\ UNCHANGED <<err, exitCode>>
  /\ UNCHANGED <<program, c, p, n, build, delayTime>>

\* triggerBuild from buildJob to the call of retry.Do
BuildJob ==
  /\ pc = "buildJob"
  /\ submitted' = Append(submitted, Submission(c.Job))
  /\ trace' = Append(trace, Event(Submission(c.Job).shape, 0, 0))
  /\ \E ok \in BOOLEAN :
       IF ~ok
       THEN /\ Finish(TriggerFailed)
            /\ UNCHANGED <<queueId, remote, errorLog>>
       ELSE /\ queueId' = 1
            /\ remote' = "running"
            /\ IF ~Enabled
               THEN Finish(Nil) /\ UNCHANGED errorLog
               ELSE /\ pc' = "retry"
                    /\ errorLog' = [i \in 1..Attempts |-> NilErr]
                    /\ UNCHANGED <<err, exitCode>>
  /\ UNCHANGED <<program, c, p, n, build, delayTime>>

\* ----------------------------------------------------------- retry.Do
RECURSIVE Pow2(_)
Pow2(i) == IF i = 0 THEN 1 ELSE 2 * Pow2(i - 1)

\* retry.Delay(c.Wait.PollTime)
Delay == c.Wait.PollTime

\* retry.FixedDelay
FixedDelay(i) == Delay

\* retry.BackOffDelay: config.delay << n
BackOffDelay(i) == Delay * Pow2(i)

\* the delay before the attempt after attempt i (from 0): main.go sets
\* retry.DelayType(retry.FixedDelay); part_001 sets no delay type and gets
\* retry-go's default, CombineDelay(BackOffDelay, RandomDelay)
DelayType(i, jitter) ==
  IF program = "main.go" THEN FixedDelay(i) ELSE BackOffDelay(i) + jitter

RetryIfAlways(e) == TRUE

\* config.retryIf, by default retry.IsRecoverable
RetryIf(e) == IsRecoverable(e)

LastAttemptEarly(i) == i = Attempts - 2

\* "if this is last attempt - don't wait"
LastAttempt(i) == i = Attempts - 1

\* retry.Do, the branch taken when the retried function returns an error:
\* log it, stop on an unrecoverable error or on the last attempt, else
\* compute the delay and go to sleep
OnError(e, events) ==
  /\ errorLog' = [errorLog EXCEPT ![n + 1] = UnpackUnrecoverable(e)]
  /\ trace' = trace \o events
  /\ IF ~RetryIf(e) \/ LastAttempt(n)
     THEN /\ Finish(RetryError(errorLog'))
          /\ UNCHANGED delayTime
     ELSE /\ \E jitter \in 0..MaxJitter : delayTime' = DelayType(n, jitter)
          /\ pc' = "sleep"
          /\ UNCHANGED <<err, exitCode>>

OnSuccessRetried(events) ==
  OnError(IsStillRunning(c.Job.Name, build), events)

\* retry.Do, the branch taken when the retried function returns nil
OnSuccess(events) ==
  /\ trace' = trace \o events
  /\ Finish(Nil)
  /\ UNCHANGED <<errorLog, delayTime>>

RetryReturnNever ==
  /\ pc = "retry"
  /\ ~(n < Attempts)
  /\ UNCHANGED vars

\* retry.Do: the loop condition fails, the error log is returned
RetryReturn ==
  /\ pc = "retry"
  /\ ~(n < Attempts)
  /\ Finish(RetryError(errorLog))
  /\ UNCHANGED <<program, c, p, submitted, queueId, remote, n, build, errorLog,
                 delayTime, trace>>

\* pollBuildResult: jenkins.GetBuildFromQueueID, which may fail
GetBuildFromQueueID ==
  /\ pc = "retry"
  /\ n < Attempts
  /\ \E ok \in BOOLEAN :
       IF ok
       THEN /\ \E number \in BuildNumbers : build' = number
            /\ pc' = "IsGood"
            /\ trace' = Append(trace, Event("GetBuildFromQueueID", n + 1, build'))
            /\ UNCHANGED <<errorLog, delayTime, err, exitCode>>
       ELSE /\ OnError(ResolutionErr, << Event("GetBuildFromQueueID", n + 1, NoBuild),
                                         Event("ResolutionFailed", n + 1, NoBuild) >>)
            /\ UNCHANGED build
  /\ UNCHANGED <<program, c, p, submitted, queueId, remote, n>>

\* the accessors of the build record, each a query of the server
IsGoodQuery(status) == status = "SUCCESS"
IsRunningQuery(status) == status = "running"

\* pollBuildResult: build.IsGood
IsGood ==
  /\ pc = "IsGood"
  /\ IF IsGoodQuery(remote)
     THEN OnSuccess(<<Event("Succeeded", n + 1, build)>>)
     ELSE /\ pc' = "IsRunning"
          /\ UNCHANGED <<trace, err, exitCode, errorLog, delayTime>>
  /\ UNCHANGED <<program, c, p, submitted, queueId, remote, n, build>>

IsRunningOptimistic ==
  /\ pc = "IsRunning"
  /\ OnError(IsStillRunning(c.Job.Name, build),
             <<Event("StillRunning", n + 1, build)>>)
  /\ UNCHANGED <<program, c, p, submitted, queueId, remote, n, build>>

IsRunningImpatient ==
  /\ pc = "IsRunning"
  /\ IF IsRunningQuery(remote) /\ n = 0
     THEN OnError(IsStillRunning(c.Job.Name, build),
                  <<Event("StillRunning", n + 1, build)>>)
     ELSE OnError(Unrecoverable(NotSuccessfulErr(c.Job.Name, build)),
                  <<Event("Failed", n + 1, build)>>)
  /\ UNCHANGED <<program, c, p, submitted, queueId, remote, n, build>>

\* pollBuildResult: build.IsRunning, and the two error returns
IsRunning ==
  /\ pc = "IsRunning"
  /\ IF IsRunningQuery(remote)
     THEN OnError(IsStillRunning(c.Job.Name, build),
                  <<Event("StillRunning", n + 1, build)>>)
     ELSE OnError(Unrecoverable(NotSuccessfulErr(c.Job.Name, build)),
                  <<Event("Failed", n + 1, build)>>)
  /\ UNCHANGED <<program, c, p, submitted, queueId, remote, n, build>>

\* retry.Do: time.Sleep(delayTime), then n++
Sleep ==
  /\ pc = "sleep"
  /\ trace' = Append(trace, Event("Sleep", n + 1, delayTime))
  /\ n' = n + 1
  /\ pc' = "retry"
  /\ UNCHANGED <<program, c, p, submitted, queueId, remote, build, errorLog,
                 delayTime, err, exitCode>>

\* the Jenkins server: a running build reaches a final result
RemoteProgress ==
  /\ pc \notin { "done" }
  /\ remote = "running"
  /\ remote' \in { "SUCCESS", "FAILURE", "ABORTED" }
  /\ UNCHANGED <<program, c, p, pc, submitted, queueId, n, build, errorLog,
                 delayTime, err, exitCode, trace>>

Next ==
  \/ RunE
  \/ CreateClient
  \/ BuildJob
  \/ RetryReturn
  \/ GetBuildFromQueueID
  \/ IsGood
  \/ IsRunning
  \/ Sleep
  \/ RemoteProgress

Spec == Init /\ [][Next]_vars

TypeOK ==
  /\ program \in Programs
  /\ pc \in { "RunE", "createClient", "buildJob", "retry", "IsGood", "IsRunning",
              "sleep", "done" }
  /\ remote \in Remotes
  /\ n \in 0..(MaxAttemptsBound + 1)
  /\ build \in { NoBuild } \cup BuildNumbers
  /\ exitCode \in { Running, 0, 1, 2 }
  /\ Len(submitted) \in 0..1

\* ------------------------------------------------- reading the trace
Classifications == { "Succeeded", "StillRunning", "ResolutionFailed", "Failed" }
Retryable == { "StillRunning", "ResolutionFailed" }

Positions(ops) == { i \in 1..Len(trace) : trace[i].op \in ops }

Polls == Cardinality(Positions({ "GetBuildFromQueueID" }))
Sleeps == Cardinality(Positions({ "Sleep" }))

\* the class given to attempt k, "" while it has none
ClassOf(k) ==
  IF \E i \in Positions(Classifications) : trace[i].n = k
  THEN trace[CHOOSE i \in Positions(Classifications) : trace[i].n = k].op
  ELSE ""

\* ------------------------------------------------------------------ C1
\* C1 (fail-fast): once an attempt k, reached through retryable attempts
\* 1..k-1, classifies the build as Failed, nothing follows it: the
\* classification is the last event (no sleep, no attempt k+1) and the
\* invocation has ended in failure with the retry error.
C1_FailFast ==
  \A i \in Positions({ "Failed" }) :
    /\ \A k \in 1..(trace[i].n - 1) : ClassOf(k) \in Retryable
    /\ i = Len(trace)
    /\ Polls = trace[i].n
    /\ Sleeps = trace[i].n - 1
    /\ pc = "done"
    /\ exitCode = 1
    /\ err.kind = "retry.Error"

\* Failed on attempt 2 of a budget of 3, after a retryable attempt 1
C1_Witness ==
  /\ Attempts = 3
  /\ ClassOf(1) \in Retryable
  /\ ClassOf(2) = "Failed"
  /\ pc = "done"

\* ------------------------------------------------------------------ C2
\* C2 (retry-loop bound): with wait enabled and maxAttempts = N >= 1, while
\* every classification is StillRunning the loop never makes more than N
\* attempts, and it ends only after exactly N attempts, N - 1 sleeps, with
\* the retry error and exit status 1.
C2_ExactlyNAttempts ==
  (/\ c.Wait.Enabled
   /\ c.Wait.MaxAttempts >= 1
   /\ queueId # NoQueue
   /\ \A i \in Positions(Classifications) : trace[i].op = "StillRunning")
  => /\ Polls <= c.Wait.MaxAttempts
     /\ pc = "done" =>
          /\ Polls = c.Wait.MaxAttempts
          /\ Cardinality(Positions({ "StillRunning" })) = c.Wait.MaxAttempts
          /\ Sleeps = c.Wait.MaxAttempts - 1
          /\ exitCode = 1
          /\ err.kind = "retry.Error"

\* three StillRunning attempts out of three, and the run has ended
C2_Witness ==
  /\ c.Wait.Enabled
  /\ c.Wait.MaxAttempts = 3
  /\ pc = "done"
  /\ \A k \in 1..3 : ClassOf(k) = "StillRunning"

\* ------------------------------------------------------------------ C3
\* C3 (stop on success): when attempt k is classified Succeeded, after
\* retryable attempts 1..k-1, exactly k polls and k-1 sleeps have happened,
\* the classification is the last event, and the invocation has ended in
\* success reporting the build number that attempt k resolved.
C3_StopOnSuccess ==
  \A i \in Positions({ "Succeeded" }) :
    /\ c.Wait.Enabled
    /\ trace[i].n <= c.Wait.MaxAttempts
    /\ \A k \in 1..(trace[i].n - 1) : ClassOf(k) \in Retryable
    /\ Polls = trace[i].n
    /\ Sleeps = trace[i].n - 1
    /\ i = Len(trace)
    /\ trace[i - 1] = Event("GetBuildFromQueueID", trace[i].n, trace[i].v)
    /\ pc = "done"
    /\ exitCode = 0
    /\ err = Nil

\* StillRunning, StillRunning, Succeeded with maxAttempts = 3
C3_Witness ==
  /\ c.Wait.MaxAttempts = 3
  /\ ClassOf(1) = "StillRunning"
  /\ ClassOf(2) = "StillRunning"
  /\ ClassOf(3) = "Succeeded"
  /\ Polls = 3
  /\ Sleeps = 2
  /\ exitCode = 0

\* ------------------------------------------------------------------ C4
\* C4 (at-most-once trigger): whatever the trigger result and the poll
\* outcomes, at most one build submission, by name or by path, is ever sent.
C4_AtMostOneSubmission ==
  /\ Len(submitted) <= 1
  /\ Cardinality(Positions({ "BuildJob", "InvokeSimple" })) <= 1

\* the run ended on a failed poll sequence, or on a failed trigger, with
\* exactly one submission sent
C4_Witness ==
  /\ pc = "done"
  /\ exitCode = 1
  /\ Len(submitted) = 1
  /\ \/ ClassOf(1) = "ResolutionFailed" /\ ClassOf(2) = "Failed"
     \/ Polls = c.Wait.MaxAttempts /\ ClassOf(Polls) = "StillRunning"

\* ------------------------------------------------------------------ C5
\* C5 (wait disabled): when wait is off and the submission has returned a
\* queue id, the invocation has already ended in success, with exactly one
\* submission and nothing else: no poll, no sleep, no classification.
C5_WaitDisabled ==
  (~c.Wait.Enabled /\ queueId # NoQueue)
  => /\ pc = "done"
     /\ err = Nil
     /\ exitCode = 0
     /\ Len(submitted) = 1
     /\ Polls = 0
     /\ Sleeps = 0
     /\ Len(trace) = 1
     /\ trace[1].op \in { "BuildJob", "InvokeSimple" }

\* job "deploy", no folders, wait off, triggered by name
C5_Witness ==
  /\ ~c.Wait.Enabled
  /\ queueId # NoQueue
  /\ c.Job.Name = <<"d", "e", "p", "l", "o", "y">>
  /\ c.Job.Folders = <<>>
  /\ submitted[1].shape = "BuildJob"
  /\ exitCode = 0

\* ------------------------------------------------------------------ C6
\* C6 (unambiguous result): a finished invocation exits 0 with a nil error
\* or exits non-zero with an error; it exits 0 exactly when wait is on and
\* some attempt was classified Succeeded, or wait is off and the trigger
\* returned a queue id.  An unfinished invocation has reported nothing.
C6_UnambiguousResult ==
  /\ pc # "done" => exitCode = Running /\ err = Pending
  /\ pc = "done" =>
       /\ exitCode \in { 0, 1, 2 }
       /\ exitCode = 0 <=> err = Nil
       /\ exitCode = 1 <=> err.kind \in { "json", "createClient", "trigger", "retry.Error" }
       /\ exitCode = 2 <=> err.kind = "panic"
       /\ exitCode = 0 <=>
            \/ c.Wait.Enabled /\ Positions({ "Succeeded" }) # {}
            \/ ~c.Wait.Enabled /\ queueId # NoQueue

\* wait on, the second attempt is classified Succeeded, exit 0
C6_Witness ==
  /\ pc = "done"
  /\ c.Wait.Enabled
  /\ ClassOf(1) \in Retryable
  /\ ClassOf(2) = "Succeeded"
  /\ exitCode = 0

\* wait on, the budget of two attempts is exhausted, exit 1
C6_WitnessExhausted ==
  /\ pc = "done"
  /\ c.Wait.Enabled
  /\ c.Wait.MaxAttempts = 2
  /\ ClassOf(1) = "StillRunning"
  /\ ClassOf(2) = "StillRunning"
  /\ exitCode = 1

\* ------------------------------------------------------------------ C7
\* C7 (ResolutionFailed is retryable): a resolution failure on an attempt
\* before the last is followed by a sleep and then the next attempt, never
\* by the end of the run; on the last attempt it ends the run with the
\* retry error.  A run whose attempts were all retryable ends only after
\* exactly maxAttempts attempts, and a run with a resolution failure and a
\* later Succeeded attempt ends in success.
C7_ResolutionFailedRetried ==
  /\ \A i \in Positions({ "ResolutionFailed" }) :
       IF trace[i].n < c.Wait.MaxAttempts
       THEN /\ i = Len(trace) => pc = "sleep"
            /\ i < Len(trace) => trace[i + 1].op = "Sleep"
            /\ i + 1 < Len(trace) =>
                 /\ trace[i + 2].op = "GetBuildFromQueueID"
                 /\ trace[i + 2].n = trace[i].n + 1
       ELSE /\ i = Len(trace)
            /\ pc = "done"
            /\ err.kind = "retry.Error"
  /\ (/\ pc = "done"
      /\ Positions({ "ResolutionFailed" }) # {}
      /\ \A i \in Positions(Classifications) : trace[i].op \in Retryable)
     => /\ Polls = c.Wait.MaxAttempts
        /\ exitCode = 1
  /\ (Positions({ "ResolutionFailed" }) # {} /\ Positions({ "Succeeded" }) # {})
     => pc = "done" /\ exitCode = 0

\* resolution fails on the first attempt and the second attempt succeeds
C7_WitnessRecovered ==
  /\ ClassOf(1) = "ResolutionFailed"
  /\ ClassOf(2) = "Succeeded"
  /\ exitCode = 0

\* resolution fails on every one of three attempts
C7_Witness ==
  /\ pc = "done"
  /\ c.Wait.MaxAttempts = 3
  /\ ClassOf(1) = "ResolutionFailed"
  /\ ClassOf(2) = "ResolutionFailed"
  /\ ClassOf(3) = "ResolutionFailed"

\* ------------------------------------------------------------------ C8
\* C8 (TriggerFailed is fatal and precedes polling): a submission that
\* returned an error ends the invocation at once with that error, exit 1,
\* one submission and no poll, with wait on or off; and every poll attempt
\* comes after a submission that returned a queue id.
C8_TriggerFailedFatal ==
  /\ (Len(submitted) >= 1 /\ queueId = NoQueue)
     => /\ pc = "done"
        /\ err = TriggerFailed
        /\ exitCode = 1
        /\ Len(submitted) = 1
        /\ Polls = 0
        /\ Sleeps = 0
  /\ Polls > 0 =>
       /\ queueId # NoQueue
       /\ trace[1].op \in { "BuildJob", "InvokeSimple" }
  /\ pc \in { "retry", "IsGood", "IsRunning", "sleep" } => queueId # NoQueue

\* the trigger failed with wait enabled and a positive budget
C8_Witness ==
  /\ err = TriggerFailed
  /\ c.Wait.Enabled
  /\ c.Wait.MaxAttempts = 3
  /\ Len(submitted) = 1

\* ------------------------------------------------------------------ C9
RetryableTypes == { "IsStillRunning", "resolution" }

\* every slot of the log holds a retryable error
IsExhaustedErr(e) ==
  /\ e.kind = "retry.Error"
  /\ \A j \in 1..Len(e.log) : e.log[j].type \in RetryableTypes

\* the last error logged is the failed-build error for this job and number
IsFailedBuildErr(e, name, number) ==
  /\ e.kind = "retry.Error"
  /\ \E j \in 1..Len(e.log) :
       /\ e.log[j] = [type |-> "did not complete successfully", jobName |-> name,
                      buildNumber |-> number, unrecoverable |-> FALSE]
       /\ \A m \in (j + 1)..Len(e.log) : e.log[m].type = "nil"
       /\ \A m \in 1..(j - 1) : e.log[m].type \in RetryableTypes

\* C9 (exhaustion is a distinct error): a run that consumed all maxAttempts
\* attempts on retryable outcomes reports an error whose every slot is a
\* retryable error, one per attempt; a run ended by a Failed build reports
\* an error whose last entry is the failed-build error with the job name
\* and the build number; the two never coincide.
C9_ExhaustionDistinct ==
  (pc = "done" /\ err.kind = "retry.Error") =>
    /\ Len(err.log) = c.Wait.MaxAttempts
    /\ IF Positions({ "Failed" }) = {}
       THEN /\ Polls = c.Wait.MaxAttempts
            /\ IsExhaustedErr(err)
            /\ \A b \in BuildNumbers : ~IsFailedBuildErr(err, c.Job.Name, b)
       ELSE /\ ~IsExhaustedErr(err)
            /\ \A i \in Positions({ "Failed" }) :
                 IsFailedBuildErr(err, c.Job.Name, trace[i].v)

\* an exhausted run of two attempts
C9_Witness ==
  /\ pc = "done"
  /\ err.kind = "retry.Error"
  /\ c.Wait.MaxAttempts = 2
  /\ Polls = 2
  /\ Positions({ "Failed" }) = {}

\* ----------------------------------------------------------------- C10
\* C10 (fixed-interval, sequential polling): every sleep lasts the
\* configured poll interval whatever the attempt index; a sleep follows the
\* retryable classification of its attempt, is followed by the next attempt,
\* every attempt after the first follows a sleep, and no sleep follows the
\* last attempt.
C10_FixedInterval ==
  /\ \A i \in Positions({ "Sleep" }) :
       /\ trace[i].v = c.Wait.PollTime
       /\ trace[i - 1].op \in Retryable
       /\ trace[i - 1].n = trace[i].n
       /\ trace[i].n < c.Wait.MaxAttempts
       /\ i < Len(trace) =>
            /\ trace[i + 1].op = "GetBuildFromQueueID"
            /\ trace[i + 1].n = trace[i].n + 1
  /\ \A i \in Positions({ "GetBuildFromQueueID" }) :
       trace[i].n > 1 => trace[i - 1].op = "Sleep"
  /\ (pc = "done" /\ trace # <<>>) => trace[Len(trace)].op # "Sleep"

\* ---------------------------------------- buildJob over folder entries
MaxEntryLen == 2
MaxEntries == 2

SeqsUpTo(S, k) == UNION { [1..m -> S] : m \in 0..k }

FolderChars == { "a", "/", " " }

\* every sequence of at most MaxEntries folder entries of at most
\* MaxEntryLen characters, and the entries of FolderInputs
TabFolders == { << <<"\t">> >>, << <<"\t", "a", "\t">>, <<"/", "\t">> >> }

AllFolderInputs ==
  SeqsUpTo(SeqsUpTo(FolderChars, MaxEntryLen), MaxEntries) \cup FolderInputs
    \cup TabFolders \cup { TeamSub }

\* main.go started with --job and --job-folders, without --wait
InitFolders ==
  /\ program = "main.go"
  /\ c \in [Job : [Name : JobNames, Folders : AllFolderInputs, Params : { EmptyMap }],
            Wait : [Enabled : { FALSE }, PollTime : { 1 }, MaxAttempts : { 1 }]]
  /\ p \in [slice : { <<>> }, json : { JsonEmpty, JsonObject }]
  /\ pc = "RunE"
  /\ submitted = <<>>
  /\ queueId = NoQueue
  /\ remote = "none"
  /\ n = 0
  /\ build = NoBuild
  /\ errorLog = <<>>
  /\ delayTime = 0
  /\ err = Pending
  /\ exitCode = Running
  /\ trace = <<>>

\* without --wait the run ends with buildJob
NextFolders ==
  \/ RunE
  \/ CreateClient
  \/ BuildJob

SpecFolders == InitFolders /\ [][NextFolders]_vars

\* ----------------------------------------------------------------- C11
\* no character of any entry is anything but a slash or white space
NoFolderPiece(folders) ==
  \A i \in 1..Len(folders) : \A j \in 1..Len(folders[i]) :
    folders[i][j] \in { "/", " ", "\t" }

\* C11 (trigger routing): the single submission is the by-name call exactly
\* when the folder entries hold nothing but slashes and white space (or there
\* are none), and the by-path call exactly otherwise; the by-name call
\* carries the job name; a finished run that got as far as buildJob has
\* issued exactly one of the two calls.
C11_TriggerRouting ==
  /\ Len(submitted) <= 1
  /\ Len(submitted) = 1 =>
       /\ submitted[1].shape \in { "BuildJob", "InvokeSimple" }
       /\ submitted[1].shape = "BuildJob" <=> NoFolderPiece(c.Job.Folders)
       /\ submitted[1].shape = "InvokeSimple" <=> ~NoFolderPiece(c.Job.Folders)
       /\ submitted[1].shape = "BuildJob" => submitted[1].path = c.Job.Name
       /\ Positions({ "BuildJob", "InvokeSimple" }) = { 1 }
       /\ trace[1].op = submitted[1].shape
  /\ (pc = "done" /\ err.kind \in { "nil", "trigger" }) => Len(submitted) = 1

\* entries made of slashes and blanks only are routed by name
C11_Witness ==
  /\ Len(c.Job.Folders) = 2
  /\ c.Job.Folders[1] = <<" ", "/">>
  /\ Len(submitted) = 1
  /\ submitted[1].shape = "BuildJob"

\* ----------------------------------------------------------------- C12
\* the pieces of s between slashes, trimmed, the empty ones dropped, found by
\* one pass over the characters
Flush(cur) == IF TrimSpace(cur) = <<>> THEN <<>> ELSE <<TrimSpace(cur)>>

RECURSIVE PiecesFrom(_, _, _)
PiecesFrom(s, i, cur) ==
  IF i > Len(s) THEN Flush(cur)
  ELSE IF s[i] = "/" THEN Flush(cur) \o PiecesFrom(s, i + 1, <<>>)
  ELSE PiecesFrom(s, i + 1, Append(cur, s[i]))

\* the pieces of all entries, in order
RECURSIVE ExpectedPieces(_)
ExpectedPieces(folders) ==
  IF Len(folders) = 0 THEN <<>>
  ELSE PiecesFrom(folders[1], 1, <<>>) \o ExpectedPieces(Tail(folders))

\* "/job/" before every segment
RECURSIVE ExpectedPath(_)
ExpectedPath(segs) ==
  IF Len(segs) = 0 THEN <<>>
  ELSE <<"/", "j", "o", "b", "/">> \o segs[1] \o ExpectedPath(Tail(segs))

FooBarBaz == << <<"f", "o", "o", "/", "b", "a", "r">>, <<" ", "b", "a", "z", " ">> >>

FooBarBazX ==
  <<"/", "j", "o", "b", "/", "f", "o", "o", "/", "j", "o", "b", "/", "b", "a", "r",
    "/", "j", "o", "b", "/", "b", "a", "z", "/", "j", "o", "b", "/", "x">>

\* C12 (nested path): the path of a by-path submission is "/job/" before
\* each trimmed non-empty piece of the folder entries, in their order, and
\* "/job/" before the job name; folders ["foo/bar", " baz "] and job "x"
\* give /job/foo/job/bar/job/baz/job/x.
C12_NestedPath ==
  (Len(submitted) = 1 /\ submitted[1].shape = "InvokeSimple") =>
    /\ ExpectedPieces(c.Job.Folders) # <<>>
    /\ submitted[1].path =
         ExpectedPath(Append(ExpectedPieces(c.Job.Folders), c.Job.Name))
    /\ (c.Job.Folders = FooBarBaz /\ c.Job.Name = <<"x">>) =>
         submitted[1].path = FooBarBazX

\* the example of the claim has been submitted
C12_Witness ==
  /\ c.Job.Folders = FooBarBaz
  /\ c.Job.Name = <<"x">>
  /\ Len(submitted) = 1
  /\ submitted[1].path = FooBarBazX

\* ------------------------------------- params.init over list entries
MaxParamLen == 2
MaxParams == 2

ParamChars == { "a", "b", "=" }

ABC == <<"a", "=", "b", "=", "c">>

\* every list of at most MaxParams entries of at most MaxParamLen
\* characters, the entries of SliceInputs, and a=b=c
AllSliceInputs ==
  SeqsUpTo(SeqsUpTo(ParamChars, MaxParamLen), MaxParams) \cup SliceInputs
    \cup { <<ABC>>, << <<"a", "=", "=">>, ABC >> }

AllJsonInputs ==
  { JsonEmpty, JsonObject, JsonTwoKeys, JsonEmptyObject, JsonMalformed, JsonNull,
    JsonNumberValue, JsonArray }

\* main.go started with --params and --params-json
InitParams ==
  /\ program = "main.go"
  /\ c \in [Job : [Name : { <<"x">> }, Folders : { <<>> }, Params : { EmptyMap }],
            Wait : [Enabled : { FALSE }, PollTime : { 1 }, MaxAttempts : { 1 }]]
  /\ p \in [slice : AllSliceInputs, json : AllJsonInputs]
  /\ pc = "RunE"
  /\ submitted = <<>>
  /\ queueId = NoQueue
  /\ remote = "none"
  /\ n = 0
  /\ build = NoBuild
  /\ errorLog = <<>>
  /\ delayTime = 0
  /\ err = Pending
  /\ exitCode = Running
  /\ trace = <<>>

\* params.init is applied by RunE
NextParams == RunE

SpecParams == InitParams /\ [][NextParams]_vars

\* ----------------------------------------------------------------- C13
\* the documents that are objects of strings
ObjectsOfStrings == { JsonObject, JsonTwoKeys, JsonEmptyObject }

\* an entry cut at its first "=": the text before it, and the text after it
KeyOf(e) == IF Index(e, "=") = 0 THEN e ELSE SubSeq(e, 1, Index(e, "=") - 1)
ValueOf(e) == IF Index(e, "=") = 0 THEN <<>> ELSE SubSeq(e, Index(e, "=") + 1, Len(e))

ListKeys(slice) == { KeyOf(slice[i]) : i \in 1..Len(slice) }

\* the value of the last entry of the list with key k
LastValue(slice, k) ==
  LET last == CHOOSE i \in 1..Len(slice) :
                /\ KeyOf(slice[i]) = k
                /\ \A j \in (i + 1)..Len(slice) : KeyOf(slice[j]) # k
  IN ValueOf(slice[last])

\* C13 (parameter merge): with no JSON or a JSON object of strings,
\* params.init succeeds and the resolved map has exactly the JSON keys and
\* the list keys; a key only in JSON keeps the JSON value; a key in the list
\* has the value of its last list entry, whatever JSON says.
C13_ParameterMerge ==
  (pc # "RunE" /\ p.json \in ObjectsOfStrings \cup { JsonEmpty }) =>
    LET json == IF p.json = JsonEmpty THEN EmptyMap ELSE Unmarshal(p.json).map IN
    /\ pc = "createClient"
    /\ DOMAIN c.Job.Params = (DOMAIN json) \cup ListKeys(p.slice)
    /\ \A k \in (DOMAIN json) \ ListKeys(p.slice) : c.Job.Params[k] = json[k]
    /\ \A k \in ListKeys(p.slice) : c.Job.Params[k] = LastValue(p.slice, k)

\* JSON gives a the value b and env the value prod; the list sets a twice
C13_Witness ==
  /\ pc = "createClient"
  /\ p.json = JsonTwoKeys
  /\ p.slice = << <<"a", "=">>, <<"a">> >>
  /\ c.Job.Params[<<"a">>] = <<>>
  /\ c.Job.Params[<<"e", "n", "v">>] = <<"p", "r", "o", "d">>

\* ----------------------------------------------------------------- C14
\* C14 (entry splitting): whenever JSON parsing raises no error, no list
\* entry raises one either: params.init succeeds, every entry's key is the
\* text before its first "=" (the whole entry when it has none, possibly
\* empty) and is stored, with the text after that "=" as value ("" when it
\* has none) unless a later entry has the same key; a=b=c gives a -> b=c.
C14_EntrySplitting ==
  (pc # "RunE" /\ (p.json = JsonEmpty \/ Unmarshal(p.json).ok)) =>
    /\ pc = "createClient"
    /\ \A i \in 1..Len(p.slice) :
         /\ KeyOf(p.slice[i]) \in DOMAIN c.Job.Params
         /\ c.Job.Params[KeyOf(p.slice[i])] = LastValue(p.slice, KeyOf(p.slice[i]))
    /\ p.slice = <<ABC>> => c.Job.Params[<<"a">>] = <<"b", "=", "c">>

\* ----------------------------------------------------------------- C15
\* C15 (MalformedParameters is fatal): once RunE has run on a non-empty
\* JSON string that is not an object of strings, the invocation has ended
\* in failure, nothing was submitted and nothing was polled.
C15_MalformedFatal ==
  (pc # "RunE" /\ p.json # JsonEmpty /\ p.json \notin ObjectsOfStrings) =>
    /\ pc = "done"
    /\ exitCode \in { 1, 2 }
    /\ submitted = <<>>
    /\ Polls = 0

\* --------------------------------------------- the default wait policy
defaultWait == FALSE
defaultWaitPollSecond == 10
defaultWaitMaxAttempts == 60

\* either copy started without --wait, --poll-time and --max-attempts: the
\* config keeps the values main puts in it before the flags are parsed
\* (PollTime in seconds)
InitDefaults ==
  /\ program \in Programs
  /\ c \in [Job : [Name : JobNames,
                   Folders : IF program = "main.go" THEN FolderInputs ELSE { <<>> },
                   Params : { EmptyMap }],
            Wait : [Enabled : { defaultWait },
                    PollTime : { defaultWaitPollSecond },
                    MaxAttempts : { defaultWaitMaxAttempts }]]
  /\ p \in ParamInputs
  /\ pc = "RunE"
  /\ submitted = <<>>
  /\ queueId = NoQueue
  /\ remote = "none"
  /\ n = 0
  /\ build = NoBuild
  /\ errorLog = <<>>
  /\ delayTime = 0
  /\ err = Pending
  /\ exitCode = Running
  /\ trace = <<>>

\* with Enabled = defaultWait triggerBuild returns before retry.Do
NextDefaults ==
  \/ RunE
  \/ CreateClient
  \/ BuildJob

SpecDefaults == InitDefaults /\ [][NextDefaults]_vars

\* ----------------------------------------------------------------- C16
\* C16 (default wait policy): with no wait-related input, once the trigger
\* has returned a queue id waiting is enabled with poll interval 10s and at
\* most 60 attempts, and the invocation has not ended without polling.
C16_DefaultWaitEnabled ==
  queueId # NoQueue =>
    /\ c.Wait.PollTime = 10
    /\ c.Wait.MaxAttempts = 60
    /\ c.Wait.Enabled
    /\ pc = "done" => Polls >= 1

\* ----------------------------------------------------------------- C17
LastEvent(t) == t[Len(t)]

\* C17 (poll classification): a step of a poll attempt classifies by the
\* answers it gets: a failed resolution gives ResolutionFailed and the loop
\* goes on unless the budget is spent; a resolved build that reports good
\* gives Succeeded and ends the run in success, without asking whether it
\* runs; one that reports not good and then running gives StillRunning and
\* the loop goes on unless the budget is spent; one that reports neither
\* gives Failed and ends the run in failure, never StillRunning.
C17_Classification ==
  [][ /\ (pc = "retry" /\ trace' # trace) =>
           \/ /\ pc' = "IsGood"
              /\ build' \in BuildNumbers
              /\ trace' = Append(trace, Event("GetBuildFromQueueID", n + 1, build'))
           \/ /\ LastEvent(trace') = Event("ResolutionFailed", n + 1, NoBuild)
              /\ pc' = "sleep" \/ (pc' = "done" /\ n = c.Wait.MaxAttempts - 1)
      /\ (pc = "IsGood" /\ pc' # "IsGood") =>
           IF IsGoodQuery(remote)
           THEN /\ trace' = Append(trace, Event("Succeeded", n + 1, build))
                /\ pc' = "done"
                /\ err' = Nil
           ELSE /\ pc' = "IsRunning"
                /\ trace' = trace
      /\ (pc = "IsRunning" /\ pc' # "IsRunning") =>
           IF IsRunningQuery(remote)
           THEN /\ trace' = Append(trace, Event("StillRunning", n + 1, build))
                /\ pc' = "sleep" \/ (pc' = "done" /\ n = c.Wait.MaxAttempts - 1)
           ELSE /\ trace' = Append(trace, Event("Failed", n + 1, build))
                /\ pc' = "done"
                /\ exitCode' = 1
    ]_vars

\* an aborted build, neither good nor running, has been classified Failed
C17_Witness ==
  /\ remote = "ABORTED"
  /\ trace # <<>>
  /\ LastEvent(trace).op = "Failed"
  /\ pc = "done"

\* ----------------------------------------------------------------- C18
\* C18 (Failed only for failed builds): while the build on the server has
\* only gone from running to succeeded, no poll attempt has classified it
\* Failed and the invocation has not reported the failed-build error.
C18_NoSpuriousFailed ==
  remote \in { "none", "running", "SUCCESS" } =>
    /\ Positions({ "Failed" }) = {}
    /\ \A j \in 1..Len(err.log) : err.log[j].type # "did not complete successfully"

\* ----------------------------------------------------------------- C19
CallOf(k) ==
  trace[CHOOSE i \in Positions({ "GetBuildFromQueueID" }) : trace[i].n = k]

ClassEventOf(k) ==
  trace[CHOOSE i \in Positions(Classifications) : trace[i].n = k]

Classified == { trace[i].n : i \in Positions(Classifications) }

\* C19 (poller idempotence): while the build on the server is unchanged
\* (still running), any two attempts whose queue resolution answered the
\* same have the same outcome, class and build number; and no step changes
\* the wait policy, the job, or the queue id once it is set.
C19_Idempotent ==
  /\ [](remote = "running" =>
          \A j, k \in Classified :
            CallOf(j).v = CallOf(k).v =>
              /\ ClassEventOf(j).op = ClassEventOf(k).op
              /\ ClassEventOf(j).v = ClassEventOf(k).v)
  /\ [][ /\ c.Wait' = c.Wait
         /\ queueId # NoQueue => (queueId' = queueId /\ c' = c)
       ]_vars

\* two attempts on the same running build, both StillRunning
C19_Witness ==
  /\ remote = "running"
  /\ { 1, 2 } \subseteq Classified
  /\ CallOf(1).v = CallOf(2).v
  /\ ClassEventOf(1).op = "StillRunning"
  /\ ClassEventOf(2).op = "StillRunning"

\* ----------------------------------------------------------------- C20
\* the steps of the program itself; every call returns, so the single
\* thread always takes its next step
Step ==
  \/ RunE
  \/ CreateClient
  \/ BuildJob
  \/ RetryReturn
  \/ GetBuildFromQueueID
  \/ IsGood
  \/ IsRunning
  \/ Sleep

\* the inputs that decide how long a run lasts: the wait policy, the copy
\* of the command, and whether params.init fails; one job, no folders
InitTermination ==
  /\ Init
  /\ c.Job.Name = <<"x">>
  /\ c.Job.Folders = <<>>
  /\ p.slice = <<>>
  /\ p.json \in { JsonEmpty, JsonMalformed }

FairSpec == InitTermination /\ [][Next]_vars /\ WF_vars(Step)

\* C20 (termination): every invocation ends; the number of poll attempts
\* never exceeds maxAttempts; a run that polled has ended on a Succeeded or
\* Failed classification or after exactly maxAttempts attempts.
C20_Termination ==
  /\ <>(pc = "done")
  /\ [](Polls <= c.Wait.MaxAttempts)
  /\ []((pc = "done" /\ c.Wait.Enabled /\ queueId # NoQueue) =>
          \/ Polls = c.Wait.MaxAttempts
          \/ LastEvent(trace).op \in { "Succeeded", "Failed" })

\* a run that used up its three attempts and ended
C20_Witness ==
  /\ pc = "done"
  /\ c.Wait.MaxAttempts = 3
  /\ Polls = 3
  /\ LastEvent(trace).op \in Retryable

====
